---------------------------- MODULE Spec2Model ----------------------------
(***************************************************************************)
(* Sonarr extension: instance registry (config.ts), instance selection     *)
(* (useInstanceManager), tracked reads (useSonarrAPI over useFetch), the   *)
(* download-queue polling effect (download-queue.tsx) and the one-shot     *)
(* operations of hooks/useSonarrAPI.                                       *)
(*                                                                         *)
(* Strings that the code inspects character-wise (urls) are sequences of   *)
(* one-character strings; strings that are only tested for emptiness are   *)
(* TLA+ strings, "" being the falsy one.  A missing preference is the      *)
(* empty string.                                                           *)
(*                                                                         *)
(* useFetch, useEffect, setInterval and fetch are the runtime the program  *)
(* is written against.  Their semantics as used here:                      *)
(*   - useFetch (usePromise of @raycast/utils) numbers its calls, aborts   *)
(*     the previous call when a new one starts, and applies a result or    *)
(*     calls onError only for the call that is still the last one and was  *)
(*     not aborted; data lives in a cache keyed by the call arguments      *)
(*     (url and headers), error and isLoading in the hook's state;         *)
(*     with execute = false the arguments effect aborts instead of         *)
(*     calling and isLoading is reported false; mutate() revalidates.      *)
(*   - an effect's cleanup runs before the effect re-runs and on unmount.  *)
(***************************************************************************)
EXTENDS Integers, Sequences, FiniteSets, TLC

VARIABLES
    prefs,            \* getPreferenceValues(): fixed during a run
    mounted,          \* the DownloadQueue view is on screen
    currentInstance,  \* useInstanceManager: currentInstance state
    instanceLoading,  \* useInstanceManager: isLoading state
    availableInstances, \* useInstanceManager: availableInstances memo
    cache,            \* useFetch: cached data per (url, X-Api-Key)
    fetchError,       \* useFetch: state.error (0 = undefined, else the id of the failed call)
    fetchLoading,     \* useFetch: state.isLoading
    lastCallId,       \* useFetch: lastCallId ref
    inflight,         \* useFetch: requests awaiting their response
    intervals,        \* number of live setInterval timers
    effectInterval,   \* the polling effect's closure holds an interval to clear
    calls,            \* history: what became of each call of the tracked read
    lastOk,           \* history: payload of the last successful fetch per key
    opPc,             \* one-shot operation: "idle", "await" or "done"
    opCall,           \* one-shot operation: name and arguments of the running call
    opOutcome,        \* one-shot operation: how the promise settled
    netLog,           \* one-shot operation: requests handed to fetch
    netResp,          \* one-shot operation: what fetch settled with
    toastLog,         \* one-shot operation: showToast styles, in order
    rm,               \* handleRemoveItem: position, captured item and instance
    sv,               \* search view: text, debounce timer, searches in flight,
                      \* results and (history) the search they came from
    form,             \* add-series form: option lists, loads in flight, isLoading
    st                \* instance-status view: instances, connectionStatus,
                      \* isLoading and the connection tests in flight

viewVars == <<mounted, currentInstance, instanceLoading, availableInstances,
              cache, fetchError, fetchLoading, lastCallId, inflight,
              intervals, effectInterval, calls, lastOk>>
opVars == <<opPc, opCall, opOutcome, netLog, netResp, toastLog, rm, sv, form, st>>
vars == <<prefs, viewVars, opVars>>

---------------------------------------------------------------------------
(* Bounds *)

\* calls of the tracked read (mount, refresh, poll tick, switch) per run
MaxCalls == 3

\* trailing slashes a configured base url ends in
MaxSlashes == 2

\* calls of the tracked read per run of the view with its remove handler
MaxReads == 2

\* largest size and sizeleft of a queue item
MaxSize == 12

\* searchSeries calls per run of the search view
MaxSearches == 3

\* manual connection tests per run of the instance-status view
MaxTests == 2

---------------------------------------------------------------------------
(* Values *)

Null == [null |-> TRUE]
Undefined == [undefined |-> TRUE]

\* JavaScript truthiness of a string
Truthy(s) == s # ""
TruthyUrl(u) == Len(u) > 0

\* "".replace(/\/$/, ""): removes one trailing slash
StripTrailingSlash(u) ==
    IF Len(u) > 0 /\ u[Len(u)] = "/" THEN SubSeq(u, 1, Len(u) - 1) ELSE u

\* instance?.url, instance?.apiKey, instance?.name
UrlOf(i) == IF i = Null THEN <<>> ELSE i.url
ApiKeyOf(i) == IF i = Null THEN "" ELSE i.apiKey

---------------------------------------------------------------------------
(* config.ts *)

\* mutant: only the name of the primary is required
PrimaryIncomplete_nameOnly(p) == ~Truthy(p.primaryInstanceName)

PrimaryIncomplete(p) ==
    ~Truthy(p.primaryInstanceName) \/ ~TruthyUrl(p.primaryInstanceUrl)
        \/ ~Truthy(p.primaryInstanceApiKey)

\* mutant: the secondary is listed whether or not it is enabled
SecondaryConfigured_ignoresEnable(p) ==
    /\ Truthy(p.secondaryInstanceName)
    /\ TruthyUrl(p.secondaryInstanceUrl)
    /\ Truthy(p.secondaryInstanceApiKey)

SecondaryConfigured(p) ==
    /\ p.enableSecondaryInstance
    /\ Truthy(p.secondaryInstanceName)
    /\ TruthyUrl(p.secondaryInstanceUrl)
    /\ Truthy(p.secondaryInstanceApiKey)

PrimaryInstance(p) ==
    [name |-> p.primaryInstanceName,
     url |-> StripTrailingSlash(p.primaryInstanceUrl),
     apiKey |-> p.primaryInstanceApiKey,
     isDefault |-> TRUE]

SecondaryInstance(p) ==
    [name |-> p.secondaryInstanceName,
     url |-> StripTrailingSlash(p.secondaryInstanceUrl),
     apiKey |-> p.secondaryInstanceApiKey,
     isDefault |-> FALSE]

\* threw = TRUE stands for the thrown Error; instances is the returned array
getSonarrInstances(p) ==
    IF PrimaryIncomplete(p)
    THEN [threw |-> TRUE, instances |-> <<>>]
    ELSE [threw |-> FALSE,
          instances |-> IF SecondaryConfigured(p)
                        THEN <<PrimaryInstance(p), SecondaryInstance(p)>>
                        ELSE <<PrimaryInstance(p)>>]

\* mutant: the secondary is returned whenever it is listed
getActiveSonarrInstance_ignoresActive(p) ==
    LET r == getSonarrInstances(p) IN
    IF r.threw THEN [threw |-> TRUE, instance |-> Null]
    ELSE IF Len(r.instances) > 1
    THEN [threw |-> FALSE, instance |-> r.instances[2]]
    ELSE [threw |-> FALSE, instance |-> r.instances[1]]

getActiveSonarrInstance(p) ==
    LET r == getSonarrInstances(p) IN
    IF r.threw THEN [threw |-> TRUE, instance |-> Null]
    ELSE IF p.activeInstance = "secondary" /\ p.enableSecondaryInstance
            /\ Len(r.instances) > 1
    THEN [threw |-> FALSE, instance |-> r.instances[2]]
    ELSE IF Len(r.instances) > 0
    THEN [threw |-> FALSE, instance |-> r.instances[1]]
    ELSE [threw |-> TRUE, instance |-> Null]

---------------------------------------------------------------------------
(* hooks/useSonarrAPI: useSonarrAPI and useQueue *)

ApiV3 == <<"/", "api", "/", "v3">>
QueueEndpoint == <<"/", "queue">>

\* mutant: the execute option is not derived from the instance
shouldExecute_always(i) == TRUE

shouldExecute(i) == TruthyUrl(UrlOf(i)) /\ Truthy(ApiKeyOf(i))

RequestUrl(i, endpoint) ==
    IF TruthyUrl(UrlOf(i)) THEN UrlOf(i) \o ApiV3 \o endpoint ELSE <<>>

\* the arguments of useFetch: the url and the X-Api-Key header
KeyOf(i) == [url |-> RequestUrl(i, QueueEndpoint), apiKey |-> ApiKeyOf(i)]

\* responses of GET /queue: { records: QueueItem[] }
Item(id, status) == [id |-> id, status |-> status]
Payloads ==
    { [records |-> <<>>],
      [records |-> <<Item(1, "completed")>>],
      [records |-> <<Item(1, "downloading"), Item(2, "completed")>>] }

\* snapshots an earlier session may have left in the cache
StoredPayloads == { p \in Payloads : Len(p.records) = 2 }

NoCall == [st |-> "none", key |-> KeyOf(Null), by |-> "", payload |-> Undefined,
           toasts |-> 0, served |-> "", late |-> FALSE]

\* data returned by useFetch for the instance of this render
DataFor(i) == cache[KeyOf(i)]
Data == DataFor(currentInstance)

\* isLoading returned by useFetch
IsLoading == shouldExecute(currentInstance) /\ fetchLoading

---------------------------------------------------------------------------
(* download-queue.tsx *)

RecordsOf(d) == IF d = Undefined THEN <<>> ELSE d.records
queueItems == RecordsOf(Data)

\* mutant: completed items count as active
hasActiveDownloads_anyStatus(items) ==
    \E n \in 1..Len(items) : items[n].status \in {"downloading", "completed"}

hasActiveDownloads(items) ==
    \E n \in 1..Len(items) : items[n].status = "downloading"

\* which of the four returns of the component renders
View ==
    IF instanceLoading THEN "loading"
    ELSE IF Len(availableInstances) = 0 THEN "noInstances"
    ELSE IF fetchError # 0 THEN "error"
    ELSE "list"

\* mutant: the interval is cleared only when nothing is downloading any more
PollEffect_clearsWhenIdle(items) ==
    /\ intervals' = IF hasActiveDownloads(items)
                    THEN intervals + 1
                    ELSE intervals - (IF effectInterval THEN 1 ELSE 0)
    /\ effectInterval' = hasActiveDownloads(items)

\* mutant: the effect returns no cleanup
PollEffect_noCleanup(items) ==
    /\ intervals' = intervals + (IF hasActiveDownloads(items) THEN 1 ELSE 0)
    /\ effectInterval' = hasActiveDownloads(items)

\* the polling effect re-runs for the items of the new render: the cleanup
\* of the previous run clears its interval, then a new interval is set
PollEffect(items) ==
    /\ intervals' = (intervals - (IF effectInterval THEN 1 ELSE 0))
                      + (IF hasActiveDownloads(items) THEN 1 ELSE 0)
    /\ effectInterval' = hasActiveDownloads(items)

Abort(rs) == { [r EXCEPT !.aborted = TRUE] : r \in rs }

\* mutant: the headers are those of the render before the switch
StartCall_staleKey(i, by) ==
    /\ lastCallId < MaxCalls
    /\ lastCallId' = lastCallId + 1
    /\ inflight' = Abort(inflight)
                     \cup { [id |-> lastCallId + 1,
                             key |-> [KeyOf(i) EXCEPT !.apiKey = ApiKeyOf(currentInstance)],
                             aborted |-> FALSE] }
    /\ fetchLoading' = TRUE
    /\ calls' = [calls EXCEPT ![lastCallId + 1] =
                    [NoCall EXCEPT !.st = "pending",
                                   !.key = [KeyOf(i) EXCEPT !.apiKey = ApiKeyOf(currentInstance)],
                                   !.by = by]]
    /\ UNCHANGED <<cache, fetchError, lastOk>>

\* usePromise callback: a new call supersedes and aborts the previous one
StartCall(i, by) ==
    /\ lastCallId < MaxCalls
    /\ lastCallId' = lastCallId + 1
    /\ inflight' = Abort(inflight)
                     \cup { [id |-> lastCallId + 1, key |-> KeyOf(i), aborted |-> FALSE] }
    /\ fetchLoading' = TRUE
    /\ calls' = [calls EXCEPT ![lastCallId + 1] =
                    [NoCall EXCEPT !.st = "pending", !.key = KeyOf(i), !.by = by]]
    /\ UNCHANGED <<cache, fetchError, lastOk>>

\* mutant: a changed instance neither aborts nor restarts the read
ArgsChanged_ignored(old, new, by) ==
    UNCHANGED <<cache, fetchError, fetchLoading, lastCallId, inflight, calls, lastOk>>

\* usePromise arguments effect after a render with another instance
ArgsChanged(old, new, by) ==
    IF KeyOf(new) = KeyOf(old) /\ shouldExecute(new) = shouldExecute(old)
    THEN UNCHANGED <<cache, fetchError, fetchLoading, lastCallId, inflight, calls, lastOk>>
    ELSE IF shouldExecute(new)
    THEN StartCall(new, by)
    ELSE /\ inflight' = Abort(inflight)
         /\ UNCHANGED <<cache, fetchError, fetchLoading, lastCallId, calls, lastOk>>

---------------------------------------------------------------------------
(* hooks/useInstanceManager *)

\* mutant: when the registry throws, the primary is used as configured
loadDefaultInstance_fallsBack ==
    /\ mounted
    /\ instanceLoading
    /\ LET r == getActiveSonarrInstance(prefs)
           i == IF r.threw THEN PrimaryInstance(prefs) ELSE r.instance IN
          /\ currentInstance' = i
          /\ ArgsChanged(currentInstance, i, "mount")
          /\ PollEffect(IF r.threw THEN <<>> ELSE RecordsOf(DataFor(i)))
    /\ instanceLoading' = FALSE
    /\ UNCHANGED <<prefs, mounted, availableInstances, opVars>>

\* mount effect
loadDefaultInstance ==
    /\ mounted
    /\ instanceLoading
    /\ LET r == getActiveSonarrInstance(prefs) IN
          /\ currentInstance' = r.instance
          /\ ArgsChanged(currentInstance, r.instance, "mount")
          /\ PollEffect(RecordsOf(DataFor(r.instance)))
    /\ instanceLoading' = FALSE
    /\ UNCHANGED <<prefs, mounted, availableInstances, opVars>>

\* the "Switch to ..." action of a queue item
switchToInstance(n) ==
    /\ mounted
    /\ View = "list"
    /\ Len(queueItems) > 0
    /\ Len(availableInstances) > 1
    /\ n \in 1..Len(availableInstances)
    /\ LET new == availableInstances[n] IN
          /\ currentInstance' = new
          /\ ArgsChanged(currentInstance, new, "switch")
          /\ IF KeyOf(new) = KeyOf(currentInstance)
             THEN UNCHANGED <<intervals, effectInterval>>
             ELSE PollEffect(RecordsOf(DataFor(new)))
    /\ UNCHANGED <<prefs, mounted, instanceLoading, availableInstances, opVars>>

---------------------------------------------------------------------------
(* download-queue.tsx: actions and timer *)

\* the "Refresh" action of a queue item
Refresh ==
    /\ mounted
    /\ View = "list"
    /\ Len(queueItems) > 0
    /\ StartCall(currentInstance, "refresh")
    /\ UNCHANGED <<prefs, mounted, currentInstance, instanceLoading,
                   availableInstances, intervals, effectInterval, opVars>>

\* mutant: retrying goes back to the configured active instance
Retry_reloads ==
    /\ mounted
    /\ View = "error"
    /\ LET r == getActiveSonarrInstance(prefs) IN
          /\ currentInstance' = r.instance
          /\ StartCall(r.instance, "retry")
    /\ UNCHANGED <<prefs, mounted, instanceLoading,
                   availableInstances, intervals, effectInterval, opVars>>

\* the "Retry" action of the error view
Retry ==
    /\ mounted
    /\ View = "error"
    /\ StartCall(currentInstance, "retry")
    /\ UNCHANGED <<prefs, mounted, currentInstance, instanceLoading,
                   availableInstances, intervals, effectInterval, opVars>>

\* the setInterval callback
PollTick ==
    /\ intervals > 0
    /\ StartCall(currentInstance, "poll")
    /\ UNCHANGED <<prefs, mounted, currentInstance, instanceLoading,
                   availableInstances, intervals, effectInterval, opVars>>

\* mutant: the interval outlives the view
Unmount_noCleanup ==
    /\ mounted
    /\ mounted' = FALSE
    /\ inflight' = Abort(inflight)
    /\ UNCHANGED <<prefs, currentInstance, instanceLoading, availableInstances,
                   cache, fetchError, fetchLoading, lastCallId, calls, lastOk,
                   intervals, effectInterval, opVars>>

\* the view is dismissed: effect cleanups run, useFetch aborts
Unmount ==
    /\ mounted
    /\ mounted' = FALSE
    /\ intervals' = intervals - (IF effectInterval THEN 1 ELSE 0)
    /\ effectInterval' = FALSE
    /\ inflight' = Abort(inflight)
    /\ UNCHANGED <<prefs, currentInstance, instanceLoading, availableInstances,
                   cache, fetchError, fetchLoading, lastCallId, calls, lastOk, opVars>>

---------------------------------------------------------------------------
(* useFetch: a response arrives *)

\* mutant: results are applied whatever call they belong to
Current_any(r) == TRUE

Current(r) == ~r.aborted /\ r.id = lastCallId

\* mutant: the new records are appended to the old ones
FetchSucceeds_merges(r, payload) ==
    /\ r \in inflight
    /\ Current(r)
    /\ inflight' = inflight \ {r}
    /\ cache' = [cache EXCEPT ![r.key] =
                    [records |-> RecordsOf(cache[r.key]) \o payload.records]]
    /\ lastOk' = [lastOk EXCEPT ![r.key] = payload]
    /\ fetchError' = 0
    /\ fetchLoading' = FALSE
    /\ calls' = [calls EXCEPT ![r.id].st = "ok", ![r.id].payload = payload]
    /\ PollEffect(RecordsOf(cache[r.key]) \o payload.records)
    /\ UNCHANGED <<prefs, mounted, currentInstance, instanceLoading,
                   availableInstances, lastCallId, opVars>>

\* 2xx: the payload replaces the data, the error is cleared
FetchSucceeds(r, payload) ==
    /\ r \in inflight
    /\ Current(r)
    /\ inflight' = inflight \ {r}
    /\ cache' = [cache EXCEPT ![r.key] = payload]
    /\ lastOk' = [lastOk EXCEPT ![r.key] = payload]
    /\ fetchError' = 0
    /\ fetchLoading' = FALSE
    /\ calls' = [calls EXCEPT ![r.id].st = "ok", ![r.id].payload = payload]
    /\ PollEffect(RecordsOf([cache EXCEPT ![r.key] = payload][KeyOf(currentInstance)]))
    /\ UNCHANGED <<prefs, mounted, currentInstance, instanceLoading,
                   availableInstances, lastCallId, opVars>>

\* mutant: a failure drops the data
FetchFails_dropsData(r) ==
    /\ r \in inflight
    /\ Current(r)
    /\ inflight' = inflight \ {r}
    /\ fetchError' = r.id
    /\ fetchLoading' = FALSE
    /\ cache' = [cache EXCEPT ![r.key] = Undefined]
    /\ calls' = [calls EXCEPT ![r.id].st = "fail", ![r.id].toasts = @ + 1]
    /\ PollEffect(<<>>)
    /\ UNCHANGED <<prefs, mounted, currentInstance, instanceLoading,
                   availableInstances, lastOk, lastCallId, opVars>>

\* mutant: onError shows no toast
FetchFails_silent(r) ==
    /\ r \in inflight
    /\ Current(r)
    /\ inflight' = inflight \ {r}
    /\ fetchError' = r.id
    /\ fetchLoading' = FALSE
    /\ calls' = [calls EXCEPT ![r.id].st = "fail"]
    /\ IF Data = Undefined
       THEN PollEffect(<<>>)
       ELSE UNCHANGED <<intervals, effectInterval>>
    /\ UNCHANGED <<prefs, mounted, currentInstance, instanceLoading,
                   availableInstances, cache, lastOk, lastCallId, opVars>>

\* non-2xx or transport failure: onError shows the toast, the error is set
FetchFails(r) ==
    /\ r \in inflight
    /\ Current(r)
    /\ inflight' = inflight \ {r}
    /\ fetchError' = r.id
    /\ fetchLoading' = FALSE
    /\ calls' = [calls EXCEPT ![r.id].st = "fail", ![r.id].toasts = @ + 1]
    /\ IF Data = Undefined
       THEN PollEffect(<<>>)
       ELSE UNCHANGED <<intervals, effectInterval>>
    /\ UNCHANGED <<prefs, mounted, currentInstance, instanceLoading,
                   availableInstances, cache, lastOk, lastCallId, opVars>>

\* the response (or the AbortError) of a superseded or aborted call
FetchDiscarded(r, served) ==
    /\ r \in inflight
    /\ ~Current(r)
    /\ inflight' = inflight \ {r}
    /\ calls' = [calls EXCEPT ![r.id].st = "discarded", ![r.id].served = served,
                              ![r.id].late = (lastCallId # r.id
                                  /\ calls[lastCallId].st \in {"ok", "fail"})]
    /\ UNCHANGED <<prefs, mounted, currentInstance, instanceLoading,
                   availableInstances, cache, lastOk, fetchError, fetchLoading,
                   lastCallId, intervals, effectInterval, opVars>>

---------------------------------------------------------------------------
(* Specification of the download-queue view *)

Prefs(pn, pu, pk, en, sn, su, sk, act) ==
    [primaryInstanceName |-> pn, primaryInstanceUrl |-> pu,
     primaryInstanceApiKey |-> pk, enableSecondaryInstance |-> en,
     secondaryInstanceName |-> sn, secondaryInstanceUrl |-> su,
     secondaryInstanceApiKey |-> sk, activeInstance |-> act]

\* configurations the view is run with
ViewPrefs ==
    { Prefs("P", <<"p">>, "kp", FALSE, "", <<>>, "", "primary"),
      Prefs("P", <<"p", "/">>, "kp", TRUE, "S", <<"s">>, "ks", "primary"),
      Prefs("P", <<"p">>, "kp", TRUE, "S", <<"s", "/">>, "ks", "secondary"),
      Prefs("P", <<"/">>, "kp", TRUE, "S", <<"s">>, "ks", "secondary"),
      Prefs("P", <<>>, "kp", TRUE, "S", <<"s">>, "ks", "secondary"),
      Prefs("", <<"p">>, "", FALSE, "", <<>>, "", "primary") }

InstancesOf(p) ==
    LET r == getSonarrInstances(p) IN
    {Null} \cup { r.instances[n] : n \in 1..Len(r.instances) }

KeysOf(p) == { KeyOf(i) : i \in InstancesOf(p) }

\* useState initial values of the search view launched with a query
SearchViewInit(query) ==
    [query |-> query, text |-> query, timer |-> [set |-> FALSE, text |-> "", instance |-> Null],
     searches |-> {}, issued |-> 0, results |-> <<>>,
     shown |-> [id |-> 0, text |-> "", instance |-> Null], isSearching |-> FALSE]

\* AddSeriesForm after its first render: useState initial values
FormInit(instance, series) ==
    [instance |-> instance, series |-> series, isLoading |-> TRUE, started |-> FALSE,
     pending |-> {}, loaded |-> [k \in {} |-> <<>>],
     rootFolders |-> <<>>, qualityProfiles |-> <<>>, languageProfiles |-> <<>>,
     submit |-> "none", popped |-> FALSE]

\* InstanceStatus after its first render: useState initial values
StatusInit ==
    [instances |-> <<>>, connectionStatus |-> [n \in {} |-> "undefined"],
     isLoading |-> TRUE, started |-> FALSE,
     initial |-> [n \in {} |-> "pending"], tests |-> {}, issued |-> 0]

\* no one-shot operation has been called
CallIdle ==
    /\ opPc = "idle"
    /\ opCall = [op |-> "none", instance |-> Null]
    /\ opOutcome = [kind |-> "none", value |-> <<>>, error |-> [message |-> "", status |-> 0]]
    /\ netLog = <<>>
    /\ netResp = [none |-> TRUE]
    /\ toastLog = <<>>
    /\ rm = [pc |-> "idle", item |-> Null, instance |-> Null, outcome |-> "none"]
    /\ form = FormInit(Null, Null)
    /\ st = StatusInit

OpIdle ==
    /\ CallIdle
    /\ sv = SearchViewInit("")

\* the first render: useState initial values, availableInstances memo; the
\* cache holds what earlier sessions stored for keys that can execute
Init ==
    /\ prefs \in ViewPrefs
    /\ mounted = TRUE
    /\ currentInstance = Null
    /\ instanceLoading = TRUE
    /\ availableInstances = getSonarrInstances(prefs).instances
    /\ cache \in [KeysOf(prefs) -> StoredPayloads \cup {Undefined}]
    /\ \A i \in InstancesOf(prefs) : ~shouldExecute(i) => cache[KeyOf(i)] = Undefined
    /\ lastOk = cache
    /\ fetchError = 0
    /\ fetchLoading = TRUE
    /\ lastCallId = 0
    /\ inflight = {}
    /\ intervals = 0
    /\ effectInterval = FALSE
    /\ calls = [n \in 1..MaxCalls |-> NoCall]
    /\ OpIdle

Next ==
    \/ loadDefaultInstance
    \/ \E n \in 1..2 : switchToInstance(n)
    \/ Refresh
    \/ Retry
    \/ PollTick
    \/ Unmount
    \/ \E r \in inflight, payload \in Payloads : FetchSucceeds(r, payload)
    \/ \E r \in inflight : FetchFails(r)
    \/ \E r \in inflight, served \in {"ok", "fail"} : FetchDiscarded(r, served)

Spec == Init /\ [][Next]_vars

TypeOK ==
    /\ mounted \in BOOLEAN
    /\ lastCallId \in 0..MaxCalls
    /\ intervals \in 0..MaxCalls

---------------------------------------------------------------------------
(* hooks/useSonarrAPI: one-shot operations.  Each async function is two    *)
(* steps: the call up to its await of fetch, and the rest once fetch has   *)
(* settled.                                                                *)

\* mutant: the api key is not checked
InvalidInstance_urlOnly(i) == ~TruthyUrl(UrlOf(i))

\* !instance?.url || !instance?.apiKey
InvalidInstance(i) == ~TruthyUrl(UrlOf(i)) \/ ~Truthy(ApiKeyOf(i))

InvalidInstanceError == [message |-> "Invalid Sonarr instance configuration", status |-> 0]
HttpError(status) == [message |-> "HTTP", status |-> status]
TransportError == [message |-> "fetch failed", status |-> 0]
SyntaxError == [message |-> "Unexpected token", status |-> 0]

Resolved(v) == [kind |-> "resolved", value |-> v, error |-> [message |-> "", status |-> 0]]
Rejected(e) == [kind |-> "rejected", value |-> <<>>, error |-> e]

\* what fetch settles with: a rejection, or a response with its status and
\* a body that response.json() rejects or parses (json), to an array of the
\* items in body or to some other value (array)
Responses ==
    { [transport |-> TRUE, status |-> 0, json |-> FALSE, array |-> FALSE, body |-> <<>>] }
    \cup { r \in [transport : {FALSE}, status : {200, 201, 404, 500}, json : BOOLEAN,
                   array : BOOLEAN, body : {<<>>, <<"s1">>}] : r.array => r.json }

\* Response.ok
Ok(resp) == resp.status >= 200 /\ resp.status <= 299

\* `${n}` and `${b}`
NumStr(n) == CASE n = 1 -> "1" [] n = 2 -> "2" [] OTHER -> "0"
BoolStr(b) == IF b THEN "true" ELSE "false"

Request(method, url, apiKey, body) ==
    [method |-> method, url |-> url, apiKey |-> apiKey, body |-> body]
NoBody == [none |-> TRUE]

Toast(style, title) == [style |-> style, title |-> title]

\* the function returns or throws before any await
OpEnds(call, outcome) ==
    /\ opPc' = "done"
    /\ opCall' = call
    /\ opOutcome' = outcome
    /\ UNCHANGED <<netLog, netResp, toastLog, rm, sv, form, st>>

\* the function hands a request to fetch and awaits it
OpFetches(call, request) ==
    /\ opPc' = "await"
    /\ opCall' = call
    /\ netLog' = Append(netLog, request)
    /\ UNCHANGED <<opOutcome, netResp, toastLog, rm, sv, form, st>>

\* the function settles after the await, with the toasts it showed
OpSettles(resp, outcome, toasts) ==
    /\ opPc' = "done"
    /\ netResp' = resp
    /\ opOutcome' = outcome
    /\ toastLog' = toastLog \o toasts
    /\ UNCHANGED <<opCall, netLog, rm, sv, form, st>>

\* query is made of unreserved characters, which encodeURIComponent keeps
searchSeries(i, query) ==
    /\ opPc = "idle"
    /\ LET call == [op |-> "searchSeries", instance |-> i] IN
       IF InvalidInstance(i)
       THEN OpEnds(call, Rejected(InvalidInstanceError))
       ELSE OpFetches(call,
              Request("GET", i.url \o ApiV3 \o <<"/", "series", "/", "lookup", "?term=", query>>,
                      i.apiKey, NoBody))
    /\ UNCHANGED <<prefs, viewVars>>

\* mutant: the catch block rethrows as the writes do
searchSeriesSettles_rethrows(resp) ==
    /\ opPc = "await"
    /\ opCall.op = "searchSeries"
    /\ IF resp.transport
       THEN OpSettles(resp, Rejected(TransportError), <<Toast("Failure", "Search Failed")>>)
       ELSE IF ~Ok(resp)
       THEN OpSettles(resp, Rejected(HttpError(resp.status)), <<Toast("Failure", "Search Failed")>>)
       ELSE IF ~resp.json
       THEN OpSettles(resp, Rejected(SyntaxError), <<Toast("Failure", "Search Failed")>>)
       ELSE OpSettles(resp, Resolved(IF resp.array THEN resp.body ELSE <<>>), <<>>)
    /\ UNCHANGED <<prefs, viewVars>>

searchSeriesSettles(resp) ==
    /\ opPc = "await"
    /\ opCall.op = "searchSeries"
    /\ IF resp.transport \/ ~Ok(resp) \/ ~resp.json
       THEN OpSettles(resp, Resolved(<<>>), <<Toast("Failure", "Search Failed")>>)
       ELSE OpSettles(resp, Resolved(IF resp.array THEN resp.body ELSE <<>>), <<>>)
    /\ UNCHANGED <<prefs, viewVars>>

\* mutant: the path is the root folder followed by the title, without separator
AddSeriesPayload_noSeparator(series, qualityProfileId, rootFolderPath, languageProfileId, seriesType, seasonFolder, monitored, searchOnAdd, monitorSeasons) ==
    [title |-> series.title,
     images |-> series.images,
     seasons |-> IF monitorSeasons.given THEN monitorSeasons.seasons ELSE series.seasons,
     year |-> series.year,
     path |-> rootFolderPath \o <<series.title>>,
     qualityProfileId |-> qualityProfileId,
     languageProfileId |-> languageProfileId,
     seasonFolder |-> seasonFolder,
     monitored |-> monitored,
     tvdbId |-> series.tvdbId,
     seriesType |-> seriesType,
     tags |-> <<>>,
     searchForMissingEpisodes |-> searchOnAdd]

\* the payload of POST /series
AddSeriesPayload(series, qualityProfileId, rootFolderPath, languageProfileId, seriesType, seasonFolder, monitored, searchOnAdd, monitorSeasons) ==
    [title |-> series.title,
     images |-> series.images,
     seasons |-> IF monitorSeasons.given THEN monitorSeasons.seasons ELSE series.seasons,
     year |-> series.year,
     path |-> rootFolderPath \o <<"/">> \o <<series.title>>,
     qualityProfileId |-> qualityProfileId,
     languageProfileId |-> languageProfileId,
     seasonFolder |-> seasonFolder,
     monitored |-> monitored,
     tvdbId |-> series.tvdbId,
     seriesType |-> seriesType,
     tags |-> <<>>,
     searchForMissingEpisodes |-> searchOnAdd]

addSeries(i, series, rootFolderPath, monitorSeasons) ==
    /\ opPc = "idle"
    /\ LET call == [op |-> "addSeries", instance |-> i,
                    args |-> [series |-> series, rootFolderPath |-> rootFolderPath,
                              monitorSeasons |-> monitorSeasons]] IN
       IF InvalidInstance(i)
       THEN OpEnds(call, Rejected(InvalidInstanceError))
       ELSE OpFetches(call,
              Request("POST", i.url \o ApiV3 \o <<"/", "series">>, i.apiKey,
                      AddSeriesPayload(series, 1, rootFolderPath, 1, "standard",
                                       TRUE, TRUE, TRUE, monitorSeasons)))
    /\ UNCHANGED <<prefs, viewVars>>

addSeriesSettles(resp) ==
    /\ opPc = "await"
    /\ opCall.op = "addSeries"
    /\ IF resp.transport
       THEN OpSettles(resp, Rejected(TransportError), <<Toast("Failure", "Failed to Add Series")>>)
       ELSE IF ~Ok(resp)
       THEN OpSettles(resp, Rejected(HttpError(resp.status)),
                      <<Toast("Failure", "Failed to Add Series")>>)
       ELSE IF ~resp.json
       THEN OpSettles(resp, Rejected(SyntaxError), <<Toast("Failure", "Failed to Add Series")>>)
       ELSE OpSettles(resp, Resolved(resp.body), <<Toast("Success", "Series Added")>>)
    /\ UNCHANGED <<prefs, viewVars>>

removeQueueItem(i, id, removeFromClient, blocklist) ==
    /\ opPc = "idle"
    /\ LET call == [op |-> "removeQueueItem", instance |-> i] IN
       IF InvalidInstance(i)
       THEN OpEnds(call, Rejected(InvalidInstanceError))
       ELSE OpFetches(call,
              Request("DELETE",
                      i.url \o ApiV3 \o <<"/", "queue", "/", NumStr(id),
                          "?removeFromClient=", BoolStr(removeFromClient),
                          "&blocklist=", BoolStr(blocklist)>>,
                      i.apiKey, NoBody))
    /\ UNCHANGED <<prefs, viewVars>>

\* mutant: the catch block rethrows without showing the failure toast
removeQueueItemSettles_noToast(resp) ==
    /\ opPc = "await"
    /\ opCall.op = "removeQueueItem"
    /\ IF resp.transport
       THEN OpSettles(resp, Rejected(TransportError), <<>>)
       ELSE IF ~Ok(resp)
       THEN OpSettles(resp, Rejected(HttpError(resp.status)), <<>>)
       ELSE OpSettles(resp, Resolved(<<>>), <<Toast("Success", "Queue Item Removed")>>)
    /\ UNCHANGED <<prefs, viewVars>>

removeQueueItemSettles(resp) ==
    /\ opPc = "await"
    /\ opCall.op = "removeQueueItem"
    /\ IF resp.transport
       THEN OpSettles(resp, Rejected(TransportError), <<Toast("Failure", "Failed to Remove Item")>>)
       ELSE IF ~Ok(resp)
       THEN OpSettles(resp, Rejected(HttpError(resp.status)),
                      <<Toast("Failure", "Failed to Remove Item")>>)
       ELSE OpSettles(resp, Resolved(<<>>), <<Toast("Success", "Queue Item Removed")>>)
    /\ UNCHANGED <<prefs, viewVars>>

testConnection(i) ==
    /\ opPc = "idle"
    /\ LET call == [op |-> "testConnection", instance |-> i] IN
       IF InvalidInstance(i)
       THEN OpEnds(call, Resolved(FALSE))
       ELSE OpFetches(call,
              Request("GET", i.url \o ApiV3 \o <<"/", "system", "/", "status">>,
                      i.apiKey, NoBody))
    /\ UNCHANGED <<prefs, viewVars>>

\* mutant: any response counts as a connection, whatever its status
testConnectionSettles_anyResponse(resp) ==
    /\ opPc = "await"
    /\ opCall.op = "testConnection"
    /\ OpSettles(resp, Resolved(~resp.transport), <<>>)
    /\ UNCHANGED <<prefs, viewVars>>

testConnectionSettles(resp) ==
    /\ opPc = "await"
    /\ opCall.op = "testConnection"
    /\ IF resp.transport
       THEN OpSettles(resp, Resolved(FALSE), <<>>)
       ELSE OpSettles(resp, Resolved(Ok(resp)), <<>>)
    /\ UNCHANGED <<prefs, viewVars>>

searchEpisodes(i, episodeIds) ==
    /\ opPc = "idle"
    /\ LET call == [op |-> "searchEpisodes", instance |-> i] IN
       IF InvalidInstance(i)
       THEN OpEnds(call, Rejected(InvalidInstanceError))
       ELSE OpFetches(call,
              Request("POST", i.url \o ApiV3 \o <<"/", "command">>, i.apiKey,
                      [name |-> "EpisodeSearch", episodeIds |-> episodeIds]))
    /\ UNCHANGED <<prefs, viewVars>>

searchEpisodesSettles(resp) ==
    /\ opPc = "await"
    /\ opCall.op = "searchEpisodes"
    /\ IF resp.transport
       THEN OpSettles(resp, Rejected(TransportError), <<Toast("Failure", "Search Failed")>>)
       ELSE IF ~Ok(resp)
       THEN OpSettles(resp, Rejected(HttpError(resp.status)), <<Toast("Failure", "Search Failed")>>)
       ELSE OpSettles(resp, Resolved(<<>>), <<Toast("Success", "Search Started")>>)
    /\ UNCHANGED <<prefs, viewVars>>

---------------------------------------------------------------------------
(* Specification of the one-shot operations, called with any instance *)

Instance(name, url, apiKey) ==
    [name |-> name, url |-> url, apiKey |-> apiKey, isDefault |-> TRUE]

OpInstances ==
    { Null,
      Instance("P", <<>>, ""), Instance("P", <<>>, "kp"), Instance("P", <<"p">>, ""),
      Instance("P", <<"p">>, "kp"), Instance("S", <<"s">>, "ks") }

Lookup(title) ==
    [title |-> title, images |-> <<"poster">>, seasons |-> <<1, 2>>,
     year |-> 2020, tvdbId |-> 7]

OpSeries == { Lookup("Example"), Lookup("Other") }
OpRootFolders == { <<"/", "tv">>, <<"/", "media", "/", "tv">> }
OpMonitorSeasons == { [given |-> FALSE, seasons |-> <<>>], [given |-> TRUE, seasons |-> <<1>>] }

InitOps ==
    /\ prefs = Prefs("P", <<"p">>, "kp", FALSE, "", <<>>, "", "primary")
    /\ mounted = FALSE
    /\ currentInstance = Null
    /\ instanceLoading = TRUE
    /\ availableInstances = <<>>
    /\ cache = [k \in KeysOf(prefs) |-> Undefined]
    /\ lastOk = cache
    /\ fetchError = 0
    /\ fetchLoading = TRUE
    /\ lastCallId = 0
    /\ inflight = {}
    /\ intervals = 0
    /\ effectInterval = FALSE
    /\ calls = [n \in 1..MaxCalls |-> NoCall]
    /\ OpIdle

NextOps ==
    \/ \E i \in OpInstances, q \in {"a", "b"} : searchSeries(i, q)
    \/ \E resp \in Responses : searchSeriesSettles(resp)
    \/ \E i \in OpInstances, s \in OpSeries, root \in OpRootFolders,
          ms \in OpMonitorSeasons : addSeries(i, s, root, ms)
    \/ \E resp \in Responses : addSeriesSettles(resp)
    \/ \E i \in OpInstances, id \in 1..2, rfc \in BOOLEAN, bl \in BOOLEAN :
          removeQueueItem(i, id, rfc, bl)
    \/ \E resp \in Responses : removeQueueItemSettles(resp)
    \/ \E i \in OpInstances : testConnection(i)
    \/ \E resp \in Responses : testConnectionSettles(resp)
    \/ \E i \in OpInstances, ids \in {<<1>>, <<1, 2>>} : searchEpisodes(i, ids)
    \/ \E resp \in Responses : searchEpisodesSettles(resp)

SpecOps == InitOps /\ [][NextOps]_vars

---------------------------------------------------------------------------
(* Properties of the tracked read and of the polling effect *)

CallIds == 1..MaxCalls
Settled == { r.id : r \in inflight } \ { r.id : r \in inflight' }
Downloading(items) == \E n \in 1..Len(items) : items[n].status = "downloading"
Missing(i) == i = Null \/ i.url = <<>> \/ i.apiKey = ""
ToastsUnchanged == \A c \in CallIds : calls'[c].toasts = calls[c].toasts

\* C1: for one instance and endpoint the visible data/error is the outcome
\* of the most recently initiated request once it has completed, and the
\* completion of a request started before the latest one changes neither
\* data nor error.
C1_LatestInitiatedWins ==
    /\ [](lastCallId > 0 /\ calls[lastCallId].key = KeyOf(currentInstance) =>
            /\ calls[lastCallId].st = "ok" =>
                  (Data = calls[lastCallId].payload /\ fetchError = 0)
            /\ calls[lastCallId].st = "fail" => fetchError = lastCallId)
    /\ [][\A c \in Settled : c < lastCallId =>
                cache' = cache /\ fetchError' = fetchError]_vars

\* an earlier request of the same key answered successfully after the latest
\* one had completed
C1_Witness ==
    \E a \in CallIds :
        /\ a < lastCallId
        /\ calls[a].st = "discarded" /\ calls[a].late /\ calls[a].served = "ok"
        /\ calls[a].key = calls[lastCallId].key
        /\ calls[lastCallId].st = "ok"
        /\ Data = calls[lastCallId].payload

\* C2: after a switch from A to B with A's read pending, B's resolved read is
\* what is visible, and the later completion of A's request changes neither
\* data nor error and shows no notification.
C2_SwitchDiscardsStale ==
    /\ [](lastCallId > 0 /\ calls[lastCallId].by = "switch"
            /\ calls[lastCallId].key = KeyOf(currentInstance)
            /\ calls[lastCallId].st = "ok"
          => Data = calls[lastCallId].payload /\ fetchError = 0)
    /\ [][\A c \in Settled : calls[c].key # KeyOf(currentInstance) =>
                cache' = cache /\ fetchError' = fetchError /\ ToastsUnchanged]_vars

\* A's request failed after B's read had resolved
C2_Witness ==
    \E a \in CallIds :
        /\ lastCallId > 0
        /\ calls[lastCallId].by = "switch" /\ calls[lastCallId].st = "ok"
        /\ calls[lastCallId].key = KeyOf(currentInstance)
        /\ a < lastCallId
        /\ calls[a].key # calls[lastCallId].key
        /\ calls[a].st = "discarded" /\ calls[a].late /\ calls[a].served = "fail"
        /\ calls[a].toasts = 0

\* C3: while the view is mounted there is no timer or one timer, and there
\* is one exactly when the current snapshot has a "downloading" record.
C3_TimerIffDownloading ==
    mounted => /\ intervals \in {0, 1}
               /\ intervals = 1 <=> Downloading(queueItems)

C3_Witness == mounted /\ intervals = 1 /\ Downloading(queueItems)

\* C4: a poll tick calls refresh() only while the applied snapshot has a
\* "downloading" record.
C4_NoTickAfterInactiveSnapshot ==
    [][lastCallId' = lastCallId + 1 /\ calls'[lastCallId'].by = "poll"
          => Downloading(queueItems)]_vars

\* a tick was issued, then a snapshot without downloads stopped the timer
C4_Witness ==
    \E a, b \in CallIds :
        /\ a < b
        /\ calls[a].by = "poll"
        /\ calls[b].st = "ok" /\ b = lastCallId
        /\ mounted /\ Data # Undefined /\ Len(queueItems) > 0
        /\ ~Downloading(queueItems)
        /\ intervals = 0

\* C5: the timer is active exactly when the last successful snapshot has a
\* "downloading" record, whatever the error field is.
C5_FailedTickKeepsPolling ==
    mounted => (intervals = 1 <=>
                  Downloading(RecordsOf(lastOk[KeyOf(currentInstance)])))

\* two poll ticks failed in a row and the timer is still there
C5_Witness ==
    \E a, b \in CallIds :
        /\ a < b
        /\ calls[a].by = "poll" /\ calls[a].st = "fail"
        /\ calls[b].by = "poll" /\ calls[b].st = "fail"
        /\ fetchError = b
        /\ mounted /\ intervals = 1

\* C6: after the view is dismissed no timer exists and no poll tick calls
\* refresh().
C6_UnmountClearsTimer ==
    /\ [](~mounted => intervals = 0)
    /\ [][~mounted => ~(lastCallId' = lastCallId + 1
                          /\ calls'[lastCallId'].by = "poll")]_vars

\* dismissed while the snapshot had a download in progress
C6_Witness == ~mounted /\ Downloading(queueItems) /\ intervals = 0

\* C7: a failed attempt populates error and shows exactly one failure
\* notification; a successful attempt shows none.
C7_OneToastPerFailure ==
    /\ [](\A c \in CallIds :
            /\ calls[c].st = "fail" => calls[c].toasts = 1
            /\ calls[c].st = "ok" => calls[c].toasts = 0)
    /\ [][\A c \in CallIds :
            calls[c].st # "fail" /\ calls'[c].st = "fail" => fetchError' = c]_vars

C7_Witness ==
    \E a, b \in CallIds :
        /\ calls[a].st = "fail" /\ calls[a].toasts = 1
        /\ calls[b].st = "ok" /\ calls[b].toasts = 0

OkCalls(k) == { c \in CallIds : calls[c].st = "ok" /\ calls[c].key = k }
LastOkCall(k) == CHOOSE c \in OkCalls(k) : \A d \in OkCalls(k) : d <= c

\* C8 (as amended): data is the whole payload of the last successful fetch of
\* its key, a failed fetch leaves it as it was, and it is undefined exactly
\* when no fetch of the key has ever succeeded.
C8_SnapshotIsLastSuccess ==
    /\ [](\A k \in DOMAIN cache :
            /\ cache[k] = lastOk[k]
            /\ OkCalls(k) # {} => cache[k] = calls[LastOkCall(k)].payload)
    /\ [][\A c \in CallIds :
            calls[c].st # "fail" /\ calls'[c].st = "fail" => cache' = cache]_vars

\* a failed fetch after a successful one of the same key
C8_Witness ==
    \E a, b \in CallIds :
        /\ a < b /\ b = lastCallId
        /\ calls[a].st = "ok" /\ calls[b].st = "fail"
        /\ calls[a].key = calls[b].key
        /\ Data = calls[a].payload
        /\ Len(queueItems) > 0

\* C8 as stated: after a failed fetch the retained snapshot is also what the
\* view shows.
C8_RetainedAndShown ==
    (mounted /\ ~instanceLoading /\ lastCallId > 0
        /\ calls[lastCallId].st = "fail" /\ Data # Undefined)
    => (Data = lastOk[KeyOf(currentInstance)] /\ View = "list")

---------------------------------------------------------------------------
(* Properties of the one-shot operations *)

\* C10 (as amended): called with an instance that is null or lacks url or
\* apiKey, no one-shot operation makes a network request; searchSeries,
\* addSeries, removeQueueItem and searchEpisodes fail with the
\* invalid-instance error and testConnection resolves to false.
C10_InvalidInstanceNoRequest ==
    (opPc # "idle" /\ Missing(opCall.instance)) =>
        /\ opPc = "done"
        /\ netLog = <<>>
        /\ IF opCall.op = "testConnection"
           THEN opOutcome.kind = "resolved" /\ opOutcome.value = FALSE
           ELSE /\ opOutcome.kind = "rejected"
                /\ opOutcome.error.message = "Invalid Sonarr instance configuration"

\* addSeries called with an instance that has a url and no api key
C10_Witness ==
    /\ opPc = "done"
    /\ opCall.op = "addSeries"
    /\ opCall.instance # Null
    /\ UrlOf(opCall.instance) # <<>> /\ ApiKeyOf(opCall.instance) = ""
    /\ opOutcome.kind = "rejected"
    /\ netLog = <<>>

\* C10 as stated: every one-shot operation, testConnection included, fails
\* with the invalid-instance error and makes no network request.
C10_EveryOperationRejects ==
    (opPc # "idle" /\ Missing(opCall.instance)) =>
        /\ netLog = <<>>
        /\ opOutcome.kind = "rejected"
        /\ opOutcome.error.message = "Invalid Sonarr instance configuration"

\* the operations that write to the server
Writes == {"addSeries", "removeQueueItem", "searchEpisodes"}

\* fetch rejected, or the response's status is outside 200..299
FailedResponse(resp) == resp.transport \/ resp.status < 200 \/ resp.status > 299

FailureToasts == { n \in 1..Len(toastLog) : toastLog[n].style = "Failure" }
SuccessToasts == { n \in 1..Len(toastLog) : toastLog[n].style = "Success" }

\* C11: when addSeries, removeQueueItem or searchEpisodes has made its
\* request and fetch fails or answers with a non-2xx status, the operation
\* throws to its caller; for a non-2xx answer the error carries the HTTP
\* status; and whenever the caller has the error the failure toast of that
\* attempt has already been shown.
C11_FailureThrowsAfterToast ==
    (opPc = "done" /\ opCall.op \in Writes /\ netLog # <<>> /\ FailedResponse(netResp)) =>
        /\ opOutcome.kind = "rejected"
        /\ ~netResp.transport =>
              /\ opOutcome.error.message = "HTTP"
              /\ opOutcome.error.status = netResp.status
        /\ FailureToasts # {}

\* removeQueueItem answered with 404
C11_Witness ==
    /\ opPc = "done"
    /\ opCall.op = "removeQueueItem"
    /\ netLog # <<>>
    /\ ~netResp.transport /\ netResp.status = 404
    /\ opOutcome.kind = "rejected"
    /\ opOutcome.error.status = 404
    /\ FailureToasts # {}


\* C12: each attempt of addSeries, removeQueueItem or searchEpisodes that
\* reached the network shows exactly one toast, and the toast is the
\* success toast if and only if the server answered with a 2xx status.
C12_OneToastMatchingOutcome ==
    (opPc = "done" /\ opCall.op \in Writes /\ netLog # <<>>) =>
        /\ Len(toastLog) = 1
        /\ toastLog[1].style \in {"Success", "Failure"}
        /\ toastLog[1].style = "Success" <=> ~FailedResponse(netResp)


\* the server's answer to the lookup: a 2xx response whose body parses to an array
LookupSucceeded(resp) ==
    ~resp.transport /\ resp.status >= 200 /\ resp.status <= 299 /\ resp.json /\ resp.array

\* C13 (as amended): once searchSeries has made its request it never
\* throws: it resolves to the server's sequence on success and to the empty
\* sequence on a transport failure, a non-2xx status, an unparsable or a
\* non-array body.  Called with an invalid or absent instance it makes no
\* request and throws the invalid-instance error.
C13_SearchResolvesOnceRequested ==
    (opPc = "done" /\ opCall.op = "searchSeries") =>
        IF netLog = <<>>
        THEN /\ Missing(opCall.instance)
             /\ opOutcome.kind = "rejected"
             /\ opOutcome.error.message = "Invalid Sonarr instance configuration"
        ELSE /\ ~Missing(opCall.instance)
             /\ opOutcome.kind = "resolved"
             /\ opOutcome.value = IF LookupSucceeded(netResp) THEN netResp.body ELSE <<>>

\* searchSeries resolved to the empty sequence after a 500, and to the
\* server's one result after a 200
C13_Witness ==
    /\ opPc = "done"
    /\ opCall.op = "searchSeries"
    /\ netLog # <<>>
    /\ opOutcome.kind = "resolved"
    /\ \/ netResp.status = 500 /\ opOutcome.value = <<>>
       \/ netResp.status = 200 /\ opOutcome.value = <<"s1">>

\* C13 as stated: searchSeries never throws, an invalid or absent instance
\* included; it resolves to the server's sequence on success and to the
\* empty sequence otherwise.
C13_SearchNeverThrows ==
    (opPc = "done" /\ opCall.op = "searchSeries") =>
        /\ opOutcome.kind = "resolved"
        /\ opOutcome.value = IF netLog # <<>> /\ LookupSucceeded(netResp)
                             THEN netResp.body ELSE <<>>


\* C14: testConnection never throws; it resolves to true exactly when it
\* made its request, GET /system/status of the instance, and the server
\* answered with a 2xx status, and to false otherwise.
C14_TestConnectionIsBoolean ==
    (opPc = "done" /\ opCall.op = "testConnection") =>
        /\ opOutcome.kind = "resolved"
        /\ opOutcome.value \in BOOLEAN
        /\ opOutcome.value <=>
              /\ Len(netLog) = 1
              /\ netLog[1].method = "GET"
              /\ netLog[1].url = opCall.instance.url \o <<"/", "api", "/", "v3", "/", "system", "/", "status">>
              /\ ~netResp.transport
              /\ netResp.status >= 200 /\ netResp.status <= 299

\* testConnection resolved to false on a 404 answer
C14_Witness ==
    /\ opPc = "done"
    /\ opCall.op = "testConnection"
    /\ netLog # <<>>
    /\ ~netResp.transport /\ netResp.status = 404
    /\ opOutcome.kind = "resolved"
    /\ opOutcome.value = FALSE


---------------------------------------------------------------------------
(* Specification of config.ts: the two functions called under any          *)
(* preferences                                                             *)

ConfigurationError == [message |-> "Primary Sonarr instance configuration is incomplete", status |-> 0]

\* getSonarrInstances() as a call: returns the array or throws
CallGetSonarrInstances ==
    /\ opPc = "idle"
    /\ LET r == getSonarrInstances(prefs) IN
       OpEnds([op |-> "getSonarrInstances", instance |-> Null],
              IF r.threw THEN Rejected(ConfigurationError) ELSE Resolved(r.instances))
    /\ UNCHANGED <<prefs, viewVars>>

\* getActiveSonarrInstance() as a call: returns the instance or throws
CallGetActiveSonarrInstance ==
    /\ opPc = "idle"
    /\ LET r == getActiveSonarrInstance(prefs) IN
       OpEnds([op |-> "getActiveSonarrInstance", instance |-> Null],
              IF r.threw THEN Rejected(ConfigurationError) ELSE Resolved(r.instance))
    /\ UNCHANGED <<prefs, viewVars>>

Slashes(n) == [k \in 1..n |-> "/"]

\* base urls as typed into the preferences: unset, or a host (possibly
\* empty) followed by up to MaxSlashes slashes
ConfigUrls(host) == { <<>>, <<host>> } \cup { h \o Slashes(n) : h \in { <<>>, <<host>> }, n \in 1..MaxSlashes }

\* every combination of set and unset preferences; "" and <<>> stand for an
\* unset or empty text field
ConfigPrefs ==
    { Prefs(pn, pu, pk, en, sn, su, sk, act) :
        pn \in {"", "P"}, pu \in ConfigUrls("p"), pk \in {"", "kp"}, en \in BOOLEAN,
        sn \in {"", "S"}, su \in ConfigUrls("s"), sk \in {"", "ks"},
        act \in {"primary", "secondary"} }

InitConfig ==
    /\ prefs \in ConfigPrefs
    /\ mounted = FALSE
    /\ currentInstance = Null
    /\ instanceLoading = TRUE
    /\ availableInstances = <<>>
    /\ cache = [k \in KeysOf(prefs) |-> Undefined]
    /\ lastOk = cache
    /\ fetchError = 0
    /\ fetchLoading = TRUE
    /\ lastCallId = 0
    /\ inflight = {}
    /\ intervals = 0
    /\ effectInterval = FALSE
    /\ calls = [n \in 1..MaxCalls |-> NoCall]
    /\ OpIdle

NextConfig ==
    \/ CallGetSonarrInstances
    \/ CallGetActiveSonarrInstance

SpecConfig == InitConfig /\ [][NextConfig]_vars

---------------------------------------------------------------------------
(* Properties of config.ts *)

\* name, url and api key of the primary are all set
PrimaryComplete ==
    /\ prefs.primaryInstanceName # ""
    /\ prefs.primaryInstanceUrl # <<>>
    /\ prefs.primaryInstanceApiKey # ""

\* name, url and api key of the secondary are all set
SecondaryComplete ==
    /\ prefs.secondaryInstanceName # ""
    /\ prefs.secondaryInstanceUrl # <<>>
    /\ prefs.secondaryInstanceApiKey # ""

\* u is the configured url v, or v without its last slash
Normalized(u, v) ==
    \/ u = v /\ (v = <<>> \/ v[Len(v)] # "/")
    \/ v # <<>> /\ v[Len(v)] = "/" /\ u = SubSeq(v, 1, Len(v) - 1)

IsPrimary(i) ==
    /\ i # Null
    /\ i.name = prefs.primaryInstanceName
    /\ i.apiKey = prefs.primaryInstanceApiKey
    /\ Normalized(i.url, prefs.primaryInstanceUrl)
    /\ i.isDefault = TRUE

IsSecondary(i) ==
    /\ i # Null
    /\ i.name = prefs.secondaryInstanceName
    /\ i.apiKey = prefs.secondaryInstanceApiKey
    /\ Normalized(i.url, prefs.secondaryInstanceUrl)
    /\ i.isDefault = FALSE

\* C15: with the primary completely configured, getSonarrInstances returns
\* one or two instances; the first is the primary, with isDefault true;
\* there is a second one, the secondary with isDefault false, exactly when
\* the secondary is enabled and its name, url and api key are all set.
C15_PrimaryFirstSecondaryIfConfigured ==
    (opPc = "done" /\ opCall.op = "getSonarrInstances" /\ PrimaryComplete) =>
        /\ opOutcome.kind = "resolved"
        /\ Len(opOutcome.value) \in {1, 2}
        /\ IsPrimary(opOutcome.value[1])
        /\ Len(opOutcome.value) = 2 <=> (prefs.enableSecondaryInstance /\ SecondaryComplete)
        /\ Len(opOutcome.value) = 2 => IsSecondary(opOutcome.value[2])

\* both instances are returned
C15_Witness ==
    /\ opPc = "done"
    /\ opCall.op = "getSonarrInstances"
    /\ PrimaryComplete
    /\ opOutcome.kind = "resolved"
    /\ Len(opOutcome.value) = 2
    /\ opOutcome.value[2].name = "S"


\* C16 (as amended): with the primary completely configured,
\* getActiveSonarrInstance returns the secondary exactly when the secondary
\* is enabled, is the active one (activeInstance = "secondary") and has its
\* name, url and api key all set; in every other case it returns the primary.
C16_SecondaryIffEnabledActiveComplete ==
    (opPc = "done" /\ opCall.op = "getActiveSonarrInstance" /\ PrimaryComplete) =>
        /\ opOutcome.kind = "resolved"
        /\ IF /\ prefs.enableSecondaryInstance
              /\ prefs.activeInstance = "secondary"
              /\ SecondaryComplete
           THEN IsSecondary(opOutcome.value)
           ELSE IsPrimary(opOutcome.value)

\* the secondary is returned
C16_Witness ==
    /\ opPc = "done"
    /\ opCall.op = "getActiveSonarrInstance"
    /\ PrimaryComplete
    /\ prefs.enableSecondaryInstance /\ prefs.activeInstance = "secondary"
    /\ opOutcome.kind = "resolved"
    /\ opOutcome.value.isDefault = FALSE
    /\ opOutcome.value.name = "S"

\* C16 as stated: the secondary is returned exactly when it is enabled and
\* is the active one, whether or not it is completely configured.
C16_SecondaryIffEnabledActive ==
    (opPc = "done" /\ opCall.op = "getActiveSonarrInstance" /\ PrimaryComplete) =>
        /\ opOutcome.kind = "resolved"
        /\ IF prefs.enableSecondaryInstance /\ prefs.activeInstance = "secondary"
           THEN IsSecondary(opOutcome.value)
           ELSE IsPrimary(opOutcome.value)

\* C17: when the name, the url or the api key of the primary is unset or
\* empty, getSonarrInstances and getActiveSonarrInstance both throw the
\* configuration error, however the secondary is configured; neither
\* returns an empty list or the secondary.
C17_IncompletePrimaryThrows ==
    (opPc = "done" /\ opCall.op \in {"getSonarrInstances", "getActiveSonarrInstance"}
       /\ ~PrimaryComplete) =>
        /\ opOutcome.kind = "rejected"
        /\ opOutcome.error.message = "Primary Sonarr instance configuration is incomplete"
        /\ opOutcome.value = <<>>

\* the api key of the primary is missing while the secondary is complete,
\* enabled and active
C17_Witness ==
    /\ opPc = "done"
    /\ opCall.op = "getActiveSonarrInstance"
    /\ prefs.primaryInstanceName # "" /\ prefs.primaryInstanceUrl # <<>>
    /\ prefs.primaryInstanceApiKey = ""
    /\ prefs.enableSecondaryInstance /\ prefs.activeInstance = "secondary"
    /\ SecondaryComplete
    /\ opOutcome.kind = "rejected"

\* the request url of an instance holds "//api"
DoubleSlashApi(i) ==
    LET u == i.url \o <<"/", "api", "/", "v3", "/", "queue">> IN
    \E k \in 1..(Len(u) - 2) : u[k] = "/" /\ u[k + 1] = "/" /\ u[k + 2] = "api"

EndsInSlash(u) == u # <<>> /\ u[Len(u)] = "/"

\* C18: for a configured base url that ends in one or more slashes, the url
\* stored in the instance ends in no slash, so that url + "/api/v3" +
\* endpoint never holds "//api".
C18_NoTrailingSlashStored ==
    (opPc = "done" /\ opCall.op = "getSonarrInstances" /\ opOutcome.kind = "resolved") =>
        /\ EndsInSlash(prefs.primaryInstanceUrl) =>
              /\ ~EndsInSlash(opOutcome.value[1].url)
              /\ ~DoubleSlashApi(opOutcome.value[1])
        /\ (Len(opOutcome.value) = 2 /\ EndsInSlash(prefs.secondaryInstanceUrl)) =>
              /\ ~EndsInSlash(opOutcome.value[2].url)
              /\ ~DoubleSlashApi(opOutcome.value[2])


---------------------------------------------------------------------------
(* Properties of the requests and of the selected instance *)

\* url is `${i.url}/api/v3` followed by an endpoint, and key is i's api key
TargetsInstance(url, key, i) ==
    /\ i # Null
    /\ Len(url) > Len(i.url) + 4
    /\ SubSeq(url, 1, Len(i.url) + 4) = i.url \o <<"/", "api", "/", "v3">>
    /\ url[Len(i.url) + 5] = "/"
    /\ key = i.apiKey

\* C19: every request of the tracked read, whatever switches, refreshes
\* and poll ticks came before it, and every request of a one-shot
\* operation goes to url + "/api/v3" + endpoint of one instance and carries
\* the api key of that same instance in X-Api-Key.
C19_RequestPairsUrlAndKey ==
    /\ \A c \in 1..MaxCalls : calls[c].st # "none" =>
          \E n \in 1..Len(availableInstances) :
              TargetsInstance(calls[c].key.url, calls[c].key.apiKey, availableInstances[n])
    /\ \A r \in inflight :
          \E n \in 1..Len(availableInstances) :
              TargetsInstance(r.key.url, r.key.apiKey, availableInstances[n])
    /\ \A n \in 1..Len(netLog) :
          TargetsInstance(netLog[n].url, netLog[n].apiKey, opCall.instance)

\* a read of the primary, then a switch to the secondary and a refresh or
\* poll tick there
C19_Witness ==
    /\ lastCallId = 3
    /\ calls[1].key.apiKey = "kp"
    /\ calls[2].by = "switch" /\ calls[2].key.apiKey = "ks"
    /\ calls[3].by \in {"refresh", "poll"} /\ calls[3].key.apiKey = "ks"
    /\ currentInstance = availableInstances[2]


\* the registry's active instance, null when the configuration is in error
ActiveInstance ==
    IF prefs.primaryInstanceName = "" \/ prefs.primaryInstanceUrl = <<>>
          \/ prefs.primaryInstanceApiKey = ""
    THEN Null
    ELSE IF Len(availableInstances) > 1 /\ prefs.activeInstance = "secondary"
    THEN availableInstances[2]
    ELSE availableInstances[1]

\* the step is a "Switch to ..." action of the list: it selects one of the
\* available instances, and a read it starts is the switch's
SwitchStep ==
    /\ mounted /\ View = "list"
    /\ \E n \in 1..Len(availableInstances) : currentInstance' = availableInstances[n]
    /\ lastCallId' # lastCallId => calls'[lastCallId'].by = "switch"

\* C20: the selected instance is null until the mount effect has run, the
\* mount effect sets it to the registry's active instance, and afterwards
\* only switchToInstance changes it: refreshes, retries, poll ticks,
\* completions and failures of the read and the unmount leave it as it is.
C20_OnlySwitchChangesInstance ==
    /\ [](instanceLoading => currentInstance = Null)
    /\ [][(instanceLoading /\ ~instanceLoading') => currentInstance' = ActiveInstance]_vars
    /\ [][(~instanceLoading /\ currentInstance' # currentInstance) => SwitchStep]_vars

\* after a switch away from the active instance, a read of the selected
\* instance started by a refresh or a poll tick has failed
C20_Witness ==
    /\ ~instanceLoading
    /\ ActiveInstance # Null
    /\ currentInstance # ActiveInstance
    /\ lastCallId > 1
    /\ calls[lastCallId].by \in {"refresh", "poll"}
    /\ calls[lastCallId].st = "fail"


---------------------------------------------------------------------------
(* download-queue.tsx: handleRemoveItem.  The handler awaits twice, the    *)
(* confirmation and removeQueueItem, and resumes after each.               *)

ReadsLeft == lastCallId < MaxReads

\* the "Remove from Queue" action of the n-th item: confirmAlert opens; the
\* closure holds the item and the selectedInstance of this render
handleRemoveItem(n) ==
    /\ mounted
    /\ View = "list"
    /\ n \in 1..Len(queueItems)
    /\ rm.pc = "idle"
    /\ rm' = [pc |-> "confirm", item |-> queueItems[n], instance |-> currentInstance,
              outcome |-> "none"]
    /\ UNCHANGED <<prefs, viewVars, opPc, opCall, opOutcome, netLog, netResp, toastLog, sv, form, st>>

\* the user answers the alert: "Remove" (confirmed) or cancel; on cancel
\* the handler returns
confirmAlertSettles(confirmed) ==
    /\ rm.pc = "confirm"
    /\ rm' = IF confirmed THEN [rm EXCEPT !.pc = "confirmed"]
                          ELSE [rm EXCEPT !.pc = "finished", !.outcome = "returned"]
    /\ UNCHANGED <<prefs, viewVars, opPc, opCall, opOutcome, netLog, netResp, toastLog, sv, form, st>>

\* mutant: the answer to the alert is not looked at
handleRemoveItemCalls_unconfirmed ==
    /\ rm.pc \in {"confirm", "confirmed"}
    /\ removeQueueItem(rm.instance, rm.item.id, TRUE, TRUE)

\* if (confirmed): the handler calls removeQueueItem with the captured
\* instance and the default flags
handleRemoveItemCalls ==
    /\ rm.pc = "confirmed"
    /\ removeQueueItem(rm.instance, rm.item.id, TRUE, TRUE)

\* mutant: the refresh follows the removal whatever its outcome
handleRemoveItemResumes_alwaysRefreshes ==
    /\ rm.pc = "confirmed"
    /\ opPc = "done"
    /\ ReadsLeft
    /\ StartCall(currentInstance, "remove")
    /\ rm' = [rm EXCEPT !.pc = "finished", !.outcome = "returned"]
    /\ UNCHANGED <<prefs, mounted, currentInstance, instanceLoading, availableInstances,
                   intervals, effectInterval,
                   opPc, opCall, opOutcome, netLog, netResp, toastLog, sv, form, st>>

\* removeQueueItem has settled: mutate() when it resolved, console.error
\* in the catch block when it rejected
handleRemoveItemResumes ==
    /\ rm.pc = "confirmed"
    /\ opPc = "done"
    /\ IF opOutcome.kind = "resolved"
       THEN ReadsLeft /\ StartCall(currentInstance, "remove")
       ELSE UNCHANGED <<cache, fetchError, fetchLoading, lastCallId, inflight, calls, lastOk>>
    /\ rm' = [rm EXCEPT !.pc = "finished", !.outcome = "returned"]
    /\ UNCHANGED <<prefs, mounted, currentInstance, instanceLoading, availableInstances,
                   intervals, effectInterval,
                   opPc, opCall, opOutcome, netLog, netResp, toastLog, sv, form, st>>

\* answers of the server to the DELETE
RemoveResponses ==
    { r \in Responses : r.body = <<>> /\ ~r.json /\ r.status \in {0, 200, 404} }

\* the view with both instances configured and a snapshot in the cache
InitRemove ==
    /\ Init
    /\ prefs = Prefs("P", <<"p", "/">>, "kp", TRUE, "S", <<"s">>, "ks", "primary")
    /\ \A i \in InstancesOf(prefs) : shouldExecute(i) => cache[KeyOf(i)] # Undefined

NextRemove ==
    \/ loadDefaultInstance
    \/ \E n \in 1..2 : ReadsLeft /\ switchToInstance(n)
    \/ ReadsLeft /\ Refresh
    \/ ReadsLeft /\ Retry
    \/ ReadsLeft /\ PollTick
    \/ Unmount
    \/ \E r \in inflight, payload \in Payloads : FetchSucceeds(r, payload)
    \/ \E r \in inflight : FetchFails(r)
    \/ \E r \in inflight, served \in {"ok", "fail"} : FetchDiscarded(r, served)
    \/ \E n \in 1..2 : handleRemoveItem(n)
    \/ \E confirmed \in BOOLEAN : confirmAlertSettles(confirmed)
    \/ handleRemoveItemCalls
    \/ \E resp \in RemoveResponses : removeQueueItemSettles(resp)
    \/ handleRemoveItemResumes

SpecRemove == InitRemove /\ [][NextRemove]_vars


---------------------------------------------------------------------------
(* Properties of handleRemoveItem *)

\* the url of DELETE /queue/{id} with the default flags on instance i
DeleteUrl(i, id) ==
    i.url \o <<"/", "api", "/", "v3", "/", "queue", "/", IF id = 1 THEN "1" ELSE "2",
               "?removeFromClient=", "true", "&blocklist=", "true">>

\* C21: the only request other than the tracked read is the DELETE of the
\* item the user chose and confirmed, on the instance that showed it; the
\* step that issues it is the remove handler's, never a refresh, poll
\* tick, switch or cancelled confirmation; and the cached snapshot changes
\* only by being replaced with a fetched one.
C21_DeleteOnlyAfterConfirmation ==
    /\ [](netLog # <<>> =>
            /\ Len(netLog) = 1
            /\ netLog[1].method = "DELETE"
            /\ rm.pc \in {"confirmed", "finished"}
            /\ netLog[1].url = DeleteUrl(rm.instance, rm.item.id)
            /\ netLog[1].apiKey = rm.instance.apiKey)
    /\ [][netLog' # netLog =>
            /\ rm.pc = "confirmed" /\ rm' = rm
            /\ lastCallId' = lastCallId
            /\ currentInstance' = currentInstance]_vars
    /\ [][\A k \in DOMAIN cache : cache'[k] # cache[k] =>
            \E c \in 1..MaxCalls :
                /\ calls[c].st = "pending" /\ calls'[c].st = "ok"
                /\ calls'[c].key = k
                /\ cache'[k] = calls'[c].payload]_vars

\* after a poll tick the confirmed removal of item 1 has issued its DELETE
C21_Witness ==
    /\ lastCallId = 2
    /\ calls[2].by = "poll"
    /\ rm.pc = "confirmed"
    /\ rm.item.id = 1
    /\ Len(netLog) = 1
    /\ netLog[1].method = "DELETE"


\* the reads started by the remove handler's mutate()
RemoveRefreshes == { c \in 1..MaxCalls : calls[c].by = "remove" }

\* C28: a refresh is started by the remove handler only once the DELETE
\* has been answered with a 2xx status; when the DELETE fails or the
\* confirmation is cancelled the handler starts no refresh, and in every
\* case it returns without throwing.
C28_RefreshOnlyAfterSuccessfulDelete ==
    /\ RemoveRefreshes # {} =>
          /\ Cardinality(RemoveRefreshes) = 1
          /\ rm.pc = "finished"
          /\ Len(netLog) = 1 /\ netLog[1].method = "DELETE"
          /\ opPc = "done" /\ opOutcome.kind = "resolved"
          /\ ~netResp.transport /\ netResp.status >= 200 /\ netResp.status <= 299
    /\ rm.pc = "finished" =>
          /\ rm.outcome = "returned"
          /\ (netLog = <<>> \/ netResp.transport \/ netResp.status > 299) => RemoveRefreshes = {}

\* the DELETE was answered with 200 and the handler's refresh is under way
C28_Witness ==
    /\ rm.pc = "finished"
    /\ Len(netLog) = 1
    /\ netResp.status = 200
    /\ lastCallId = 2
    /\ calls[2].by = "remove" /\ calls[2].st = "pending"


---------------------------------------------------------------------------
(* Properties of the addSeries payload *)

\* addSeries has posted its payload
AddSeriesPosted == opCall.op = "addSeries" /\ netLog # <<>>

\* C22 (as amended): the payload addSeries posts has path equal to
\* rootFolderPath + "/" + series.title, and title and images copied from
\* the lookup result; seasons are those of the lookup result unless the
\* caller passes monitorSeasons, which are then posted instead.
C22_PayloadPathAndCopies ==
    AddSeriesPosted =>
        LET body == netLog[1].body
            args == opCall.args
        IN  /\ netLog[1].method = "POST"
            /\ body.path = args.rootFolderPath \o <<"/", args.series.title>>
            /\ body.title = args.series.title
            /\ body.images = args.series.images
            /\ body.seasons = IF args.monitorSeasons.given
                              THEN args.monitorSeasons.seasons
                              ELSE args.series.seasons

\* "/tv" and "Example" give "/tv/Example", with the seasons of the lookup
C22_Witness ==
    /\ AddSeriesPosted
    /\ opCall.args.rootFolderPath = <<"/", "tv">>
    /\ opCall.args.series.title = "Example"
    /\ ~opCall.args.monitorSeasons.given
    /\ netLog[1].body.path = <<"/", "tv", "/", "Example">>
    /\ netLog[1].body.seasons = <<1, 2>>

\* C22 as stated: title, images and seasons are always those of the lookup
\* result.
C22_SeasonsAlwaysCopied ==
    AddSeriesPosted =>
        /\ netLog[1].body.path = opCall.args.rootFolderPath \o <<"/", opCall.args.series.title>>
        /\ netLog[1].body.title = opCall.args.series.title
        /\ netLog[1].body.images = opCall.args.series.images
        /\ netLog[1].body.seasons = opCall.args.series.seasons


---------------------------------------------------------------------------
(* utils.ts: getDownloadProgress.  The result has two decimals and is kept *)
(* in hundredths: 10000 stands for 100, 3333 for 33.33.                    *)

\* Math.round(n / d) for d > 0: halves go up
Round(n, d) == (2 * n + d) \div (2 * d)

\* mutant: the share that is left instead of the share that is done
getDownloadProgress_left(item) ==
    IF item.size = 0 THEN 0
    ELSE Round(item.sizeleft * 100 * 100, item.size)

\* Math.round(((size - sizeleft) / size) * 100 * 100) / 100, in hundredths
getDownloadProgress(item) ==
    IF item.size = 0 THEN 0
    ELSE Round((item.size - item.sizeleft) * 100 * 100, item.size)

\* the function applied to an item
CallGetDownloadProgress(item) ==
    /\ opPc = "idle"
    /\ OpEnds([op |-> "getDownloadProgress", instance |-> Null, args |-> item],
              Resolved(getDownloadProgress(item)))
    /\ UNCHANGED <<prefs, viewVars>>

ProgressItems == [size : 0..MaxSize, sizeleft : 0..MaxSize]

NextProgress == \E item \in ProgressItems : CallGetDownloadProgress(item)

SpecProgress == InitOps /\ [][NextProgress]_vars

ProgressComputed == opPc = "done" /\ opCall.op = "getDownloadProgress"

\* C23: for size > 0 the progress is 100 when sizeleft = 0 and 0 when
\* sizeleft = size; for size = 0 it is 0 whatever sizeleft is.
C23_ProgressEndpoints ==
    ProgressComputed =>
        LET item == opCall.args IN
        /\ (item.size > 0 /\ item.sizeleft = 0) => opOutcome.value = 100 * 100
        /\ (item.size > 0 /\ item.sizeleft = item.size) => opOutcome.value = 0
        /\ item.size = 0 => opOutcome.value = 0

\* an item of size 3 with nothing left is at 100
C23_Witness ==
    /\ ProgressComputed
    /\ opCall.args.size = 3 /\ opCall.args.sizeleft = 0
    /\ opOutcome.value = 100 * 100


---------------------------------------------------------------------------
(* Properties of the view under a configuration error *)

\* the registry cannot resolve an instance: the primary is incomplete
ConfigurationInError ==
    \/ prefs.primaryInstanceName = ""
    \/ prefs.primaryInstanceUrl = <<>>
    \/ prefs.primaryInstanceApiKey = ""

\* C24: under a configuration error the instance manager settles with
\* currentInstance null, isLoading false and no available instance, and
\* the view shows its guidance state; no tracked read, timer or one-shot
\* request is ever started, and once settled the manager does not resolve
\* again.
C24_ConfigErrorSettlesEmpty ==
    /\ [](ConfigurationInError =>
            /\ currentInstance = Null
            /\ availableInstances = <<>>
            /\ ~instanceLoading => View = "noInstances"
            /\ lastCallId = 0 /\ inflight = {} /\ intervals = 0
            /\ netLog = <<>>)
    /\ [][(ConfigurationInError /\ ~instanceLoading) =>
            (~instanceLoading' /\ currentInstance' = Null)]_vars

\* the manager has settled on a primary that lacks its url
C24_Witness ==
    /\ prefs.primaryInstanceUrl = <<>>
    /\ mounted
    /\ ~instanceLoading
    /\ currentInstance = Null
    /\ availableInstances = <<>>


\* C25: the download-queue view never holds more than one polling
\* interval: whatever snapshots, refreshes, switches and failures come, the
\* effect clears the interval of its previous run before it sets a new
\* one, so a live interval is always the one the last effect run holds.
C25_AtMostOneTimer ==
    /\ intervals \in {0, 1}
    /\ intervals = 1 <=> effectInterval

\* two snapshots with an active download have arrived one after the other
\* and one interval is live
C25_Witness ==
    /\ lastCallId >= 2
    /\ \E c \in 1..(lastCallId - 1) :
          /\ calls[c].st = "ok" /\ calls[c + 1].st = "ok"
          /\ calls[c].key = calls[c + 1].key
          /\ Downloading(calls[c].payload.records)
          /\ Downloading(calls[c + 1].payload.records)
    /\ intervals = 1


---------------------------------------------------------------------------
(* search-series.tsx: the search view.  Its searchSeries calls run         *)
(* concurrently; each resolves to the server's sequence or, on any         *)
(* failure after the request, to the empty sequence.  The useSeries read   *)
(* of the view only feeds the "already in library" mark and is left out.   *)

\* what the server finds for a term on an instance
ServerResults(i, text) == << [title |-> text, on |-> i.name] >>

\* setIsSearching(true); searchSeries(instance, text).then(...)
IssueSearch(v, text, i) ==
    [v EXCEPT !.issued = @ + 1,
              !.searches = @ \cup {[id |-> v.issued + 1, text |-> text, instance |-> i]},
              !.isSearching = TRUE]

\* the effect on [query, url, apiKey]: searches the launch query at once
InitialSearchEffect(v, old, new) ==
    IF (UrlOf(new) # UrlOf(old) \/ ApiKeyOf(new) # ApiKeyOf(old))
          /\ v.query # "" /\ ~InvalidInstance(new)
    THEN IssueSearch(v, v.query, new)
    ELSE v

\* the effect on [searchText, selectedInstance]: the cleanup clears the
\* pending timeout, then a new timeout is set for this text and instance
DebounceEffect(v, text, i) ==
    [v EXCEPT !.text = text, !.timer = [set |-> TRUE, text |-> text, instance |-> i]]

\* the bound on searches is respected by the new state of the view
SearchViewBecomes(v) ==
    /\ v.issued <= MaxSearches
    /\ sv' = v

SearchUnchanged ==
    UNCHANGED <<prefs, mounted, cache, fetchError, fetchLoading, lastCallId, inflight,
                intervals, effectInterval, calls, lastOk,
                opPc, opCall, opOutcome, netLog, netResp, toastLog, rm, form, st>>

\* useInstanceManager's mount effect, followed by both effects of the view
SearchLoadDefaultInstance ==
    /\ instanceLoading
    /\ LET r == getActiveSonarrInstance(prefs) IN
          /\ currentInstance' = r.instance
          /\ SearchViewBecomes(
                DebounceEffect(InitialSearchEffect(sv, currentInstance, r.instance),
                               sv.text, r.instance))
    /\ instanceLoading' = FALSE
    /\ UNCHANGED availableInstances
    /\ SearchUnchanged

\* the "Switch to ..." action of a result, for another instance than the
\* selected one
SearchSwitchToInstance(n) ==
    /\ ~instanceLoading
    /\ Len(sv.results) > 0
    /\ Len(availableInstances) > 1
    /\ n \in 1..Len(availableInstances)
    /\ availableInstances[n] # currentInstance
    /\ currentInstance' = availableInstances[n]
    /\ SearchViewBecomes(
          DebounceEffect(InitialSearchEffect(sv, currentInstance, availableInstances[n]),
                         sv.text, availableInstances[n]))
    /\ UNCHANGED <<instanceLoading, availableInstances>>
    /\ SearchUnchanged

\* onSearchTextChange with another text
SearchTextChanges(text) ==
    /\ ~instanceLoading
    /\ Len(availableInstances) > 0
    /\ text # sv.text
    /\ SearchViewBecomes(DebounceEffect(sv, text, currentInstance))
    /\ UNCHANGED <<currentInstance, instanceLoading, availableInstances>>
    /\ SearchUnchanged

\* the 500 ms timeout fires with the text and instance of its render
SearchTimerFires ==
    /\ sv.timer.set
    /\ LET v == [sv EXCEPT !.timer.set = FALSE] IN
       IF sv.timer.text = "" \/ InvalidInstance(sv.timer.instance)
       THEN SearchViewBecomes([v EXCEPT !.results = <<>>,
                                        !.shown = [id |-> 0, text |-> "", instance |-> Null]])
       ELSE SearchViewBecomes(IssueSearch(v, sv.timer.text, sv.timer.instance))
    /\ UNCHANGED <<currentInstance, instanceLoading, availableInstances>>
    /\ SearchUnchanged

\* a searchSeries call settles: .then(setSearchResults), .finally(...)
SearchCompletes(s, found) ==
    /\ s \in sv.searches
    /\ sv' = [sv EXCEPT !.searches = @ \ {s},
                        !.results = IF found THEN ServerResults(s.instance, s.text) ELSE <<>>,
                        !.shown = s,
                        !.isSearching = FALSE]
    /\ UNCHANGED <<currentInstance, instanceLoading, availableInstances>>
    /\ SearchUnchanged

\* the view launched with or without a query, after its first render
InitSearch ==
    /\ prefs = Prefs("P", <<"p", "/">>, "kp", TRUE, "S", <<"s">>, "ks", "primary")
    /\ mounted = TRUE
    /\ currentInstance = Null
    /\ instanceLoading = TRUE
    /\ availableInstances = getSonarrInstances(prefs).instances
    /\ cache = [k \in KeysOf(prefs) |-> Undefined]
    /\ lastOk = cache
    /\ fetchError = 0
    /\ fetchLoading = TRUE
    /\ lastCallId = 0
    /\ inflight = {}
    /\ intervals = 0
    /\ effectInterval = FALSE
    /\ calls = [n \in 1..MaxCalls |-> NoCall]
    /\ CallIdle
    /\ \E query \in {"", "a"} : sv = DebounceEffect(SearchViewInit(query), query, Null)

NextSearch ==
    \/ SearchLoadDefaultInstance
    \/ \E n \in 1..2 : SearchSwitchToInstance(n)
    \/ \E text \in {"", "a", "b"} : SearchTextChanges(text)
    \/ SearchTimerFires
    \/ \E s \in sv.searches, found \in BOOLEAN : SearchCompletes(s, found)

SpecSearch == InitSearch /\ [][NextSearch]_vars

\* C26: in the search view with a search text, once every searchSeries
\* call has completed and no debounce timer is pending, the results shown
\* are those of the search issued last, which is the one for the current
\* text and instance: an earlier call that completes later never
\* overwrites them.
C26_LatestSearchShown ==
    (sv.text # "" /\ sv.issued > 0 /\ sv.searches = {} /\ ~sv.timer.set) =>
        /\ sv.shown.text = sv.text
        /\ sv.shown.instance = currentInstance
        /\ sv.results \in {<<>>, ServerResults(currentInstance, sv.text)}


---------------------------------------------------------------------------
(* add-series-form.tsx: the form pushed by the search view for a lookup    *)
(* result and the selected instance.  getRootFolders, getQualityProfiles   *)
(* and getLanguageProfiles reject for an invalid instance and otherwise    *)
(* resolve, to the mapped list or, on any failure after the request, to    *)
(* the empty list.                                                         *)

OptionLoads == {"rootFolders", "qualityProfiles", "languageProfiles"}

\* the lists a server can answer with, per load
OptionLists(k) ==
    IF k = "rootFolders" THEN { <<>>, << <<"/", "tv">> >>, << <<"/", "tv">>, <<"/", "media">> >> }
                         ELSE { <<>>, <<1>> }

\* mutant: the full form is rendered whatever the lists hold
FormView_ignoresEmpty(f) ==
    IF f.isLoading THEN "loading" ELSE "form"

\* the three render branches of the form
FormView(f) ==
    IF f.isLoading THEN "loading"
    ELSE IF Len(f.rootFolders) = 0 \/ Len(f.qualityProfiles) = 0
            \/ Len(f.languageProfiles) = 0
    THEN "incomplete"
    ELSE "form"

\* the toasts of loadOptions for the lists that came back empty
EmptyListToasts(folders, qProfiles, lProfiles) ==
    (IF Len(folders) = 0 THEN <<Toast("Failure", "No Root Folders")>> ELSE <<>>)
    \o (IF Len(qProfiles) = 0 THEN <<Toast("Failure", "No Quality Profiles")>> ELSE <<>>)
    \o (IF Len(lProfiles) = 0 THEN <<Toast("Failure", "No Language Profiles")>> ELSE <<>>)

FormUnchanged ==
    UNCHANGED <<prefs, viewVars, opPc, opCall, opOutcome, netLog, netResp, rm, sv, st>>

\* the mount effect calls loadOptions: the three loads start; for an invalid
\* instance each of them throws, Promise.all rejects, the catch block shows
\* "Loading Error" and the finally block clears isLoading
loadOptions ==
    /\ ~form.started
    /\ IF InvalidInstance(form.instance)
       THEN /\ form' = [form EXCEPT !.started = TRUE, !.isLoading = FALSE]
            /\ toastLog' = Append(toastLog, Toast("Failure", "Loading Error"))
       ELSE /\ form' = [form EXCEPT !.started = TRUE, !.pending = OptionLoads]
            /\ UNCHANGED toastLog
    /\ FormUnchanged

\* one of the loads resolves; when it is the last, Promise.all resolves: the
\* three lists are set, a toast is shown per empty list, isLoading is cleared
LoadSettles(k, list) ==
    /\ k \in form.pending
    /\ list \in OptionLists(k)
    /\ LET loaded == [j \in DOMAIN form.loaded \cup {k} |->
                         IF j = k THEN list ELSE form.loaded[j]] IN
       IF form.pending = {k}
       THEN /\ form' = [form EXCEPT !.pending = {}, !.loaded = loaded,
                                    !.rootFolders = loaded["rootFolders"],
                                    !.qualityProfiles = loaded["qualityProfiles"],
                                    !.languageProfiles = loaded["languageProfiles"],
                                    !.isLoading = FALSE]
            /\ toastLog' = toastLog \o EmptyListToasts(loaded["rootFolders"],
                                                       loaded["qualityProfiles"],
                                                       loaded["languageProfiles"])
       ELSE /\ form' = [form EXCEPT !.pending = @ \ {k}, !.loaded = loaded]
            /\ UNCHANGED toastLog
    /\ FormUnchanged

\* "Add Series": handleSubmit calls addSeries with the form's instance and
\* series and the chosen root folder; monitorSeasons is not passed
handleSubmit(n) ==
    /\ FormView(form) = "form"
    /\ ~form.popped
    /\ form.submit = "none"
    /\ n \in 1..Len(form.rootFolders)
    /\ addSeries(form.instance, form.series, form.rootFolders[n],
                 [given |-> FALSE, seasons |-> <<>>])

\* addSeries has settled: popToRoot() when it resolved, the toast of the
\* catch block when it rejected
handleSubmitResumes ==
    /\ form.submit = "none"
    /\ opPc = "done"
    /\ opCall.op = "addSeries"
    /\ IF opOutcome.kind = "resolved"
       THEN /\ form' = [form EXCEPT !.submit = "returned", !.popped = TRUE]
            /\ UNCHANGED toastLog
       ELSE /\ form' = [form EXCEPT !.submit = "returned"]
            /\ toastLog' = Append(toastLog, Toast("Failure", "Failed to Add Series"))
    /\ FormUnchanged

\* "Back" of the incomplete form and "Cancel" of the full one: popToRoot
FormPopToRoot ==
    /\ FormView(form) \in {"incomplete", "form"}
    /\ ~form.popped
    /\ opPc = "idle"
    /\ form' = [form EXCEPT !.popped = TRUE]
    /\ UNCHANGED toastLog
    /\ FormUnchanged

\* the instances the search view can hand to the form
FormInstances ==
    { Instance("P", <<"p">>, "kp"), Instance("S", <<"s">>, "ks"),
      Instance("P", <<>>, "kp"), Instance("P", <<"p">>, "") }

\* the form after its first render
InitForm ==
    /\ prefs = Prefs("P", <<"p">>, "kp", FALSE, "", <<>>, "", "primary")
    /\ mounted = FALSE
    /\ currentInstance = Null
    /\ instanceLoading = TRUE
    /\ availableInstances = <<>>
    /\ cache = [k \in KeysOf(prefs) |-> Undefined]
    /\ lastOk = cache
    /\ fetchError = 0
    /\ fetchLoading = TRUE
    /\ lastCallId = 0
    /\ inflight = {}
    /\ intervals = 0
    /\ effectInterval = FALSE
    /\ calls = [n \in 1..MaxCalls |-> NoCall]
    /\ opPc = "idle"
    /\ opCall = [op |-> "none", instance |-> Null]
    /\ opOutcome = [kind |-> "none", value |-> <<>>, error |-> [message |-> "", status |-> 0]]
    /\ netLog = <<>>
    /\ netResp = [none |-> TRUE]
    /\ toastLog = <<>>
    /\ rm = [pc |-> "idle", item |-> Null, instance |-> Null, outcome |-> "none"]
    /\ sv = SearchViewInit("")
    /\ st = StatusInit
    /\ \E i \in FormInstances, s \in OpSeries : form = FormInit(i, s)

\* answers of the server to the POST
SubmitResponses ==
    { r \in Responses : r.status \in {0, 201, 500} /\ r.array = FALSE }

NextForm ==
    \/ loadOptions
    \/ \E k \in OptionLoads : \E list \in OptionLists(k) : LoadSettles(k, list)
    \/ \E n \in 1..2 : handleSubmit(n)
    \/ \E resp \in SubmitResponses : addSeriesSettles(resp)
    \/ handleSubmitResumes
    \/ FormPopToRoot

SpecForm == InitForm /\ [][NextForm]_vars

\* the submission has run to its end
SubmitReturned == form.submit = "returned"

\* C27: a submission of the form whose addSeries rejects ends with exactly
\* one failure notification, no success notification and the form still
\* open; one whose addSeries resolves ends with exactly one success
\* notification, no failure notification and the navigation back to root.
C27_OneNotificationPerSubmit ==
    SubmitReturned =>
        IF opOutcome.kind = "rejected"
        THEN Cardinality(FailureToasts) = 1 /\ SuccessToasts = {} /\ ~form.popped
        ELSE Cardinality(SuccessToasts) = 1 /\ FailureToasts = {} /\ form.popped


\* the effect runs after the first render and every load that was started
\* settles: the three requests are answered or fail
SpecFormFair ==
    /\ SpecForm
    /\ WF_vars(loadOptions)
    /\ WF_vars(\E k \in OptionLoads : \E list \in OptionLists(k) : LoadSettles(k, list))

\* addSeries has been called from the form, or a request has left it
SubmitIssued == opCall.op = "addSeries" \/ netLog # <<>>

\* the three loads have resolved, each to a non-empty list
OptionsLoaded ==
    /\ form.started
    /\ form.pending = {}
    /\ DOMAIN form.loaded = OptionLoads
    /\ \A k \in OptionLoads : Len(form.loaded[k]) > 0

\* C30: addSeries is called from the form, and a POST /series leaves it,
\* only when the three option loads have all resolved to non-empty lists and
\* the loading state is over; the loading state is over as soon as no load
\* is outstanding, and the form always leaves it.
C30_SubmitOnlyWithOptions ==
    /\ [](SubmitIssued => (OptionsLoaded /\ ~form.isLoading))
    /\ []((form.started /\ form.pending = {}) => ~form.isLoading)
    /\ <>(~form.isLoading)

C30_Witness ==
    /\ OptionsLoaded
    /\ Len(netLog) = 1
    /\ netLog[1].method = "POST"
    /\ netLog[1].url = form.instance.url \o ApiV3 \o <<"/", "series">>


---------------------------------------------------------------------------
(* instance-status view: the mount effect tests every instance and sets    *)
(* the whole status map when all tests are back; "Test Connection" tests   *)
(* one instance and writes its entry before and after the test.            *)

\* what testConnection resolves to; it never rejects
ConnectionResult(i, resp) ==
    IF InvalidInstance(i) THEN "false"
    ELSE IF resp.transport THEN "false"
    ELSE IF Ok(resp) THEN "true" ELSE "false"

\* answers of a server to GET /system/status
TestResponses ==
    { r \in Responses : r.status \in {0, 200, 500} /\ ~r.json /\ r.body = <<>> }

\* connectionStatus[name]
StatusOf(status, name) ==
    IF name \in DOMAIN status THEN status[name] ELSE "undefined"

\* { ...prev, [name]: value }
WithStatus(status, name, value) ==
    [k \in DOMAIN status \cup {name} |-> IF k = name THEN value ELSE status[k]]

\* results.forEach(result => statusMap[result.name] = result.isConnected)
StatusMap(instances, results) ==
    [k \in { instances[n].name : n \in 1..Len(instances) } |->
        results[CHOOSE n \in 1..Len(instances) :
                   /\ instances[n].name = k
                   /\ \A m \in 1..Len(instances) : instances[m].name = k => m <= n]]

StatusUnchanged ==
    UNCHANGED <<prefs, viewVars, opPc, opCall, opOutcome, netLog, netResp, rm, sv, form>>

\* the mount effect: getSonarrInstances() throws, or the instances are set
\* and one test per instance starts
StatusMountEffect ==
    /\ ~st.started
    /\ LET r == getSonarrInstances(prefs) IN
       IF r.threw
       THEN /\ st' = [st EXCEPT !.started = TRUE, !.isLoading = FALSE]
            /\ toastLog' = Append(toastLog, Toast("Failure", "Configuration Error"))
       ELSE /\ st' = [st EXCEPT !.started = TRUE, !.instances = r.instances,
                                !.initial = [n \in 1..Len(r.instances) |-> "pending"]]
            /\ UNCHANGED toastLog
    /\ StatusUnchanged

\* a test of the mount effect resolves; when it is the last, Promise.all
\* resolves: the status map replaces connectionStatus, isLoading is cleared
InitialTestSettles(n, resp) ==
    /\ n \in DOMAIN st.initial
    /\ st.initial[n] = "pending"
    /\ LET results == [st.initial EXCEPT ![n] = ConnectionResult(st.instances[n], resp)] IN
       IF \A m \in DOMAIN results : results[m] # "pending"
       THEN st' = [st EXCEPT !.initial = results,
                             !.connectionStatus = StatusMap(st.instances, results),
                             !.isLoading = FALSE]
       ELSE st' = [st EXCEPT !.initial = results]
    /\ UNCHANGED toastLog
    /\ StatusUnchanged

\* "Test Connection" of the n-th listed instance: its entry becomes
\* undefined and testConnection is awaited
handleTestConnection(n) ==
    /\ n \in 1..Len(st.instances)
    /\ st.issued < MaxTests
    /\ st' = [st EXCEPT !.issued = @ + 1,
                        !.tests = @ \cup {[id |-> st.issued + 1, instance |-> n]},
                        !.connectionStatus =
                            WithStatus(@, st.instances[n].name, "undefined")]
    /\ UNCHANGED toastLog
    /\ StatusUnchanged

\* mutant: a failed test leaves the entry as it is
handleTestConnectionResumes_dropsFailure(t, resp) ==
    /\ t \in st.tests
    /\ LET i == st.instances[t.instance]
           isConnected == ConnectionResult(i, resp) IN
       /\ st' = [st EXCEPT !.tests = @ \ {t},
                           !.connectionStatus =
                               IF isConnected = "true" THEN WithStatus(@, i.name, isConnected)
                               ELSE @]
       /\ toastLog' = Append(toastLog,
                             IF isConnected = "true"
                             THEN Toast("Success", "Connection Successful")
                             ELSE Toast("Failure", "Connection Failed"))
    /\ StatusUnchanged

\* the awaited test resolves: the entry is written and a toast shown
handleTestConnectionResumes(t, resp) ==
    /\ t \in st.tests
    /\ LET i == st.instances[t.instance]
           isConnected == ConnectionResult(i, resp) IN
       /\ st' = [st EXCEPT !.tests = @ \ {t},
                           !.connectionStatus = WithStatus(@, i.name, isConnected)]
       /\ toastLog' = Append(toastLog,
                             IF isConnected = "true"
                             THEN Toast("Success", "Connection Successful")
                             ELSE Toast("Failure", "Connection Failed"))
    /\ StatusUnchanged

\* the configurations of the view: those of the queue view, and one whose
\* two instances carry the same name
StatusPrefs ==
    ViewPrefs \cup { Prefs("P", <<"p">>, "kp", TRUE, "P", <<"s">>, "ks", "primary") }

\* the view after its first render
InitStatus ==
    /\ prefs \in StatusPrefs
    /\ mounted = FALSE
    /\ currentInstance = Null
    /\ instanceLoading = TRUE
    /\ availableInstances = <<>>
    /\ cache = [k \in KeysOf(prefs) |-> Undefined]
    /\ lastOk = cache
    /\ fetchError = 0
    /\ fetchLoading = TRUE
    /\ lastCallId = 0
    /\ inflight = {}
    /\ intervals = 0
    /\ effectInterval = FALSE
    /\ calls = [n \in 1..MaxCalls |-> NoCall]
    /\ OpIdle

NextStatus ==
    \/ StatusMountEffect
    \/ \E n \in 1..2, resp \in TestResponses : InitialTestSettles(n, resp)
    \/ \E n \in 1..2 : handleTestConnection(n)
    \/ \E t \in st.tests, resp \in TestResponses : handleTestConnectionResumes(t, resp)

SpecStatus == InitStatus /\ [][NextStatus]_vars

\* the effect runs after the first render and every test of the mount
\* effect resolves: each request is answered or fails
SpecStatusFair ==
    /\ SpecStatus
    /\ WF_vars(StatusMountEffect)
    /\ WF_vars(\E n \in 1..2, resp \in TestResponses : InitialTestSettles(n, resp))

\* every connection test that was started, by the mount effect or by the
\* action, has completed
AllTestsCompleted ==
    /\ st.started
    /\ \A n \in DOMAIN st.initial : st.initial[n] # "pending"
    /\ st.tests = {}

\* C29: in the instance-status view, once every started connection test has
\* completed, each listed instance shows connected or failed and none shows
\* testing; the loading state is over as soon as the tests of the mount
\* effect are back, and the view always leaves it.
C29_StatusSettles ==
    /\ [](AllTestsCompleted =>
            \A n \in 1..Len(st.instances) :
               StatusOf(st.connectionStatus, st.instances[n].name) \in {"true", "false"})
    /\ []((st.started /\ \A n \in DOMAIN st.initial : st.initial[n] # "pending")
             => ~st.isLoading)
    /\ <>(~st.isLoading)

C29_Witness ==
    /\ AllTestsCompleted
    /\ ~st.isLoading
    /\ Len(st.instances) = 2
    /\ st.issued = MaxTests
    /\ StatusOf(st.connectionStatus, st.instances[1].name) = "true"
    /\ StatusOf(st.connectionStatus, st.instances[2].name) = "false"

=============================================================================
